---- MODULE Spec2Model ----
(***************************************************************************)
(* Model of config.py: the module-level dict display snowflake_conn_prop,  *)
(* its evaluation at module load, the read of the mapping by an importing  *)
(* consumer, and the operator's edit of the credential literals before     *)
(* use.                                                                    *)
(***************************************************************************)
EXTENDS Integers, Sequences, FiniteSets, TLC

(* ---------------------------------------------------------------------- *)
(* Values.  A Python object carries its type; a string literal evaluates   *)
(* to an object of type str.                                               *)
(* ---------------------------------------------------------------------- *)
Str(s) == [type |-> "str", val |-> s]

(* The value of the literal None, of type NoneType: what a placeholder    *)
(* written without quotes would evaluate to.                              *)
PyNone == [type |-> "NoneType", val |-> "None"]

(* Number of reads of the mapping a behaviour records. *)
MaxReads == 3

(* The strings an operator may put in place of a credential literal: the  *)
(* inputs of Override.                                                    *)
Values == {"", "xy12345.eu-west-1", "jdoe"}

(* The fields the operator is expected to edit. *)
Credentials == {"account", "user", "password"}

(* ---------------------------------------------------------------------- *)
(* The dict display of config.py, lines 2-8: one key/value pair per line.  *)
(* SourceLiteral is the display as shipped; the definitions before it are  *)
(* faulty variants of it, used to show that the properties depend on it.   *)
(* ---------------------------------------------------------------------- *)
(* Variant: the last pair is missing. *)
SourceLiteralNoWarehouse ==
    << [key |-> "account",   value |-> Str("")],
       [key |-> "user",      value |-> Str("")],
       [key |-> "password",  value |-> Str("")],
       [key |-> "role",      value |-> Str("ACCOUNTADMIN")],
       [key |-> "database",  value |-> Str("SCIKIT_LEARN")],
       [key |-> "schema",    value |-> Str("PUBLIC")] >>

(* Variant: the database and schema defaults are exchanged. *)
SourceLiteralSwappedDefaults ==
    << [key |-> "account",   value |-> Str("")],
       [key |-> "user",      value |-> Str("")],
       [key |-> "password",  value |-> Str("")],
       [key |-> "role",      value |-> Str("ACCOUNTADMIN")],
       [key |-> "database",  value |-> Str("PUBLIC")],
       [key |-> "schema",    value |-> Str("SCIKIT_LEARN")],
       [key |-> "warehouse", value |-> Str("LAB_SCIKIT_WH")] >>

(* Variant: user holds a visible placeholder instead of the empty string. *)
SourceLiteralPlaceholderUser ==
    << [key |-> "account",   value |-> Str("")],
       [key |-> "user",      value |-> Str("<user>")],
       [key |-> "password",  value |-> Str("")],
       [key |-> "role",      value |-> Str("ACCOUNTADMIN")],
       [key |-> "database",  value |-> Str("SCIKIT_LEARN")],
       [key |-> "schema",    value |-> Str("PUBLIC")],
       [key |-> "warehouse", value |-> Str("LAB_SCIKIT_WH")] >>

(* Variant: password is None instead of a string. *)
SourceLiteralNonePassword ==
    << [key |-> "account",   value |-> Str("")],
       [key |-> "user",      value |-> Str("")],
       [key |-> "password",  value |-> PyNone],
       [key |-> "role",      value |-> Str("ACCOUNTADMIN")],
       [key |-> "database",  value |-> Str("SCIKIT_LEARN")],
       [key |-> "schema",    value |-> Str("PUBLIC")],
       [key |-> "warehouse", value |-> Str("LAB_SCIKIT_WH")] >>

(* Variant: the second pair repeats the key of the first. *)
SourceLiteralDuplicateKey ==
    << [key |-> "account",   value |-> Str("")],
       [key |-> "account",   value |-> Str("")],
       [key |-> "password",  value |-> Str("")],
       [key |-> "role",      value |-> Str("ACCOUNTADMIN")],
       [key |-> "database",  value |-> Str("SCIKIT_LEARN")],
       [key |-> "schema",    value |-> Str("PUBLIC")],
       [key |-> "warehouse", value |-> Str("LAB_SCIKIT_WH")] >>

(* The display as shipped. *)
SourceLiteral ==
    << [key |-> "account",   value |-> Str("")],
       [key |-> "user",      value |-> Str("")],
       [key |-> "password",  value |-> Str("")],
       [key |-> "role",      value |-> Str("ACCOUNTADMIN")],
       [key |-> "database",  value |-> Str("SCIKIT_LEARN")],
       [key |-> "schema",    value |-> Str("PUBLIC")],
       [key |-> "warehouse", value |-> Str("LAB_SCIKIT_WH")] >>

(* ---------------------------------------------------------------------- *)
(* Evaluation of a dict display: the pairs are inserted left to right, a   *)
(* later pair with the same key replacing the earlier value.               *)
(* ---------------------------------------------------------------------- *)
EmptyDict == << >>

DictSet(d, k, v) == [j \in (DOMAIN d) \cup {k} |-> IF j = k THEN v ELSE d[j]]

RECURSIVE BuildDictUpTo(_, _)
BuildDictUpTo(lit, n) ==
    IF n = 0
    THEN EmptyDict
    ELSE DictSet(BuildDictUpTo(lit, n - 1), lit[n].key, lit[n].value)

BuildDict(lit) == BuildDictUpTo(lit, Len(lit))

(* Variant of LoadOutcome: a load that rejects a blank credential. *)
LoadOutcomeValidating(lit) ==
    IF \E i \in DOMAIN lit : lit[i].key \in Credentials /\ lit[i].value.val = ""
    THEN "ValueError"
    ELSE "none"

(* The outcome of executing the module: it holds the assignment and       *)
(* comments only, no check and no raise, so the outcome is never an error. *)
LoadOutcome(lit) == "none"

(* ---------------------------------------------------------------------- *)
(* State.                                                                  *)
(* ---------------------------------------------------------------------- *)
VARIABLES
    literal,              \* the pairs of the display as the file holds them
    loaded,               \* the module has been executed in this process
    snowflake_conn_prop,  \* the module attribute: the dict built at load
    err,                  \* the exception raised by the component, or "none"
    reads                 \* what each read of the mapping returned, in order

vars == <<literal, loaded, snowflake_conn_prop, err, reads>>

Init ==
    /\ literal = SourceLiteral
    /\ loaded = FALSE
    /\ snowflake_conn_prop = EmptyDict
    /\ err = "none"
    /\ reads = << >>

(* The operator replaces the literal value of one credential field, before  *)
(* the module is used.                                                     *)
Override(k, v) ==
    /\ ~loaded
    /\ err = "none"
    /\ k \in Credentials
    /\ v \in Values
    /\ literal' = [i \in DOMAIN literal |->
                     IF literal[i].key = k
                     THEN [key |-> k, value |-> Str(v)]
                     ELSE literal[i]]
    /\ UNCHANGED <<loaded, snowflake_conn_prop, err, reads>>

(* Module load: line 1 binds the name to the dict the display evaluates to. *)
Load ==
    /\ ~loaded
    /\ err = "none"
    /\ err' = LoadOutcome(literal)
    /\ loaded' = (err' = "none")
    /\ snowflake_conn_prop' =
           IF err' = "none" THEN BuildDict(literal) ELSE snowflake_conn_prop
    /\ UNCHANGED <<literal, reads>>

(* Variant of Read: the read removes the password from the mapping. *)
ReadPop ==
    /\ loaded
    /\ Len(reads) < MaxReads
    /\ reads' = Append(reads, snowflake_conn_prop)
    /\ snowflake_conn_prop' =
           [k \in (DOMAIN snowflake_conn_prop) \ {"password"} |->
               snowflake_conn_prop[k]]
    /\ UNCHANGED <<literal, loaded, err>>

(* Variant of Read: the read adds a key to the mapping. *)
ReadSetDefault ==
    /\ loaded
    /\ Len(reads) < MaxReads
    /\ reads' = Append(reads, snowflake_conn_prop)
    /\ snowflake_conn_prop' =
           DictSet(snowflake_conn_prop, "authenticator", Str("snowflake"))
    /\ UNCHANGED <<literal, loaded, err>>

(* Variant of Read: the read replaces the value of role. *)
ReadScrub ==
    /\ loaded
    /\ Len(reads) < MaxReads
    /\ reads' = Append(reads, snowflake_conn_prop)
    /\ snowflake_conn_prop' =
           DictSet(snowflake_conn_prop, "role", Str("PUBLIC"))
    /\ UNCHANGED <<literal, loaded, err>>

(* Read configuration: the consumer takes the mapping as it is now; the    *)
(* file defines no other operation on it.                                  *)
Read ==
    /\ loaded
    /\ Len(reads) < MaxReads
    /\ reads' = Append(reads, snowflake_conn_prop)
    /\ UNCHANGED <<literal, loaded, snowflake_conn_prop, err>>

Next ==
    \/ \E k \in Credentials, v \in Values : Override(k, v)
    \/ Load
    \/ Read

Spec == Init /\ [][Next]_vars

(* ---------------------------------------------------------------------- *)
(* Properties.                                                             *)
(* ---------------------------------------------------------------------- *)
SevenKeys ==
    {"account", "user", "password", "role", "database", "schema", "warehouse"}

Defaults ==
    [account   |-> Str(""),
     user      |-> Str(""),
     password  |-> Str(""),
     role      |-> Str("ACCOUNTADMIN"),
     database  |-> Str("SCIKIT_LEARN"),
     schema    |-> Str("PUBLIC"),
     warehouse |-> Str("LAB_SCIKIT_WH")]

(* The file is as shipped: no operator edit has changed a literal. *)
Unmodified == literal = SourceLiteral

(* C1: the key set of snowflake_conn_prop, as created at module load, is   *)
(* exactly the seven keys account, user, password, role, database, schema, *)
(* warehouse: each is present and no other key is.                         *)
C1_KeySetExact ==
    loaded => /\ DOMAIN snowflake_conn_prop = SevenKeys
              /\ Cardinality(DOMAIN snowflake_conn_prop) = 7

C1_Witness ==
    /\ loaded
    /\ reads = << >>
    /\ "warehouse" \in DOMAIN snowflake_conn_prop
    /\ "account" \in DOMAIN snowflake_conn_prop

(* C2: reading the unmodified configuration returns exactly the mapping    *)
(* account "", user "", password "", role ACCOUNTADMIN, database           *)
(* SCIKIT_LEARN, schema PUBLIC, warehouse LAB_SCIKIT_WH; role, database,   *)
(* schema and warehouse hold those defaults in every loaded mapping, the   *)
(* operator's edits of the credentials notwithstanding.                    *)
C2_DefaultsExact ==
    /\ (loaded /\ Unmodified) =>
           /\ snowflake_conn_prop = Defaults
           /\ \A i \in DOMAIN reads : reads[i] = Defaults
    /\ loaded =>
           /\ snowflake_conn_prop["role"] = Str("ACCOUNTADMIN")
           /\ snowflake_conn_prop["database"] = Str("SCIKIT_LEARN")
           /\ snowflake_conn_prop["schema"] = Str("PUBLIC")
           /\ snowflake_conn_prop["warehouse"] = Str("LAB_SCIKIT_WH")

C2_Witness ==
    /\ loaded
    /\ Unmodified
    /\ Len(reads) = 1
    /\ reads[1] = Defaults

(* C3: in the unmodified configuration account, user and password each     *)
(* hold the empty string.                                                  *)
C3_BlankCredentials ==
    (loaded /\ Unmodified) =>
        \A k \in Credentials :
            /\ k \in DOMAIN snowflake_conn_prop
            /\ snowflake_conn_prop[k].val = ""

C3_Witness ==
    /\ loaded
    /\ Unmodified
    /\ Len(reads) = 2
    /\ \A k \in Credentials : reads[2][k].val = ""

(* C4: every value of snowflake_conn_prop is a string: for each of the     *)
(* seven keys the value stored under it has type str.                      *)
C4_AllStrings ==
    loaded =>
        /\ \A k \in SevenKeys :
               /\ k \in DOMAIN snowflake_conn_prop
               /\ snowflake_conn_prop[k].type = "str"
        /\ \A k \in DOMAIN snowflake_conn_prop :
               snowflake_conn_prop[k].type = "str"

C4_Witness ==
    /\ loaded
    /\ ~Unmodified
    /\ \A k \in SevenKeys : snowflake_conn_prop[k].type = "str"
    /\ \A k \in Credentials : snowflake_conn_prop[k].val # ""

(* C5: reads are idempotent: every read returns the same key set and the   *)
(* same value for every key as the first read, and after any number of     *)
(* reads the mapping is still what the reads returned.                     *)
C5_IdempotentRead ==
    \A i \in DOMAIN reads :
        /\ DOMAIN reads[i] = DOMAIN reads[1]
        /\ \A k \in DOMAIN reads[i] : reads[i][k] = reads[1][k]
        /\ reads[i] = snowflake_conn_prop

C5_Witness ==
    /\ Len(reads) = MaxReads
    /\ Len(reads) >= 2
    /\ reads[Len(reads)] = reads[1]

C7_NoMutation ==
    [][loaded =>
          /\ snowflake_conn_prop' = snowflake_conn_prop
          /\ literal' = literal
          /\ loaded'
          /\ err' = err]_vars

C7_Witness ==
    /\ loaded
    /\ Len(reads) >= 1
    /\ snowflake_conn_prop = BuildDict(literal)
    /\ snowflake_conn_prop["account"].val # ""

(* C8: no validation: loading and reading never end in an error, blank     *)
(* credentials included; a load with a blank credential still yields the   *)
(* mapping.                                                                *)
C8_NoValidation ==
    /\ err = "none"
    /\ (~loaded) => ENABLED Load

C8_Witness ==
    /\ loaded
    /\ err = "none"
    /\ Len(reads) >= 1
    /\ reads[1]["account"].val = ""
    /\ reads[1]["password"].val = ""
    /\ reads[1]["user"].val # ""

(* C9: an operator override of one credential field changes only that      *)
(* field of the mapping the display evaluates to: the key set stays the    *)
(* seven keys, every other key keeps its previous value, the overridden    *)
(* key holds the new string, and all values remain strings.                *)
C9_OverrideFrame ==
    [][\A k \in Credentials, v \in Values :
          Override(k, v) =>
              /\ DOMAIN BuildDict(literal) = SevenKeys
              /\ DOMAIN BuildDict(literal') = SevenKeys
              /\ \A j \in SevenKeys \ {k} :
                     BuildDict(literal')[j] = BuildDict(literal)[j]
              /\ BuildDict(literal')[k] = Str(v)
              /\ \A j \in SevenKeys : BuildDict(literal')[j].type = "str"]_vars

C9_Witness ==
    /\ loaded
    /\ snowflake_conn_prop["password"].val # ""
    /\ snowflake_conn_prop["account"].val = ""
    /\ snowflake_conn_prop["user"].val = ""
    /\ \A j \in SevenKeys \ Credentials : snowflake_conn_prop[j] = Defaults[j]

====
